---------------------------- MODULE Spec2Model ----------------------------
(***************************************************************************)
(* Model of fin_ai.py: the NSE stock information request pipeline          *)
(* (main, get_stock_info, get_quarterly_financials,                        *)
(* calculate_quarterly_averages, plot_visualizations), the number          *)
(* formatter format_large_number and the catalog loader load_stocks.       *)
(*                                                                         *)
(* Amounts of money are counted in thousands of rupees (TLC integers are   *)
(* 32 bits wide and 10^12 rupees must fit), so the tier thresholds         *)
(* 10^6, 10^9, 10^12 of the source are 10^3, 10^6, 10^9 here.  A dividend  *)
(* yield is counted in millionths (0.0234 is 23400).                       *)
(***************************************************************************)
EXTENDS Integers, Sequences, FiniteSets, TLC

VARIABLES
    pc,                 \* position of the process: start, idle, or a line of main
    catalogFile,        \* nse_stocks.csv on disk (the environment)
    stocks,             \* module-level variable stocks
    openFigures,        \* figures registered with matplotlib.pyplot
    ticker_symbol,      \* main: ticker_symbol
    ticker,             \* main: ticker
    info,               \* get_stock_info: info
    histCheck,          \* get_stock_info: the history the emptiness check saw
    histRead,           \* get_stock_info: the history the close was read from
    current_price,      \* get_stock_info: current_price
    table1,             \* the statement table get_stock_info's fetch saw
    fin1,               \* get_stock_info: net_profit, sales, operating_income
    stock_info,         \* main: stock_info
    table2,             \* the statement table main's own fetch saw
    fin2,               \* main: net_profit, sales
    quarterly_high_low, \* main: quarterly_high_low
    visual_image,       \* main: visual_image
    exc,                \* the exception main caught, if any
    result,             \* what main returned
    fmtIn,              \* argument of a direct call of format_large_number
    fmtOut              \* its return value

vars == <<pc, catalogFile, stocks, openFigures, ticker_symbol, ticker, info,
          histCheck, histRead, current_price, table1, fin1, stock_info, table2, fin2,
          quarterly_high_low, visual_image, exc, result, fmtIn, fmtOut>>

-----------------------------------------------------------------------------
(* Bounds of the model *)

\* most period columns a provider statement table has
MaxCols == 4

\* requests are issued while fewer than this many figures are open
MaxFigures == 2

-----------------------------------------------------------------------------
(* Python values *)

\* a Python value: a number (int or float), a str, or None
Num(n) == [t |-> "num", n |-> n, s |-> ""]
Str(s) == [t |-> "str", n |-> 0, s |-> s]
None == [t |-> "none", n |-> 0, s |-> ""]

\* the "not available" sentinel 'N/A'
NA == Str("N/A")

\* isinstance(num, (int, float))
IsNumeric(v) == v.t = "num"

\* truth value of a Python object: 0, '' and None are false
Truthy(v) ==
    CASE v.t = "num" -> v.n # 0
      [] v.t = "str" -> v.s # ""
      [] OTHER -> FALSE

\* an absent value (None) is <<>>, a present one <<v>>
Absent == <<>>
Some(v) == <<v>>

-----------------------------------------------------------------------------
(* format_large_number *)

\* the thresholds 10^12, 10^9, 10^6 rupees, in units of amount
TRILLION == 1000000000
BILLION == 1000000
MILLION == 1000

\* a / b rounded to the nearest integer, ties to even (b > 0)
RoundDiv(a, b) ==
    LET q == a \div b
        r == a % b
    IN  IF 2 * r > b THEN q + 1
        ELSE IF 2 * r < b THEN q
        ELSE IF q % 2 = 0 THEN q ELSE q + 1

\* a rendered string: a literal, or sym + a number with two decimals + a
\* unit suffix.  With a suffix h is the number in hundredths of the tier
\* unit; with none (f"{num:.2f}") h is the amount itself, which the two
\* decimals render exactly
Literal(s) == [sym |-> s, h |-> 0, tier |-> ""]
Money(h, tier) == [sym |-> "Rs", h |-> h, tier |-> tier]
Percent(h) == [sym |-> "%", h |-> h, tier |-> ""]

format_large_number_exclusive_bounds(num) ==
    IF IsNumeric(num)
    THEN IF num.n > TRILLION
         THEN Money(RoundDiv(num.n, TRILLION \div 100), " Trillion")
         ELSE IF num.n > BILLION
         THEN Money(RoundDiv(num.n, BILLION \div 100), " Billion")
         ELSE IF num.n > MILLION
         THEN Money(RoundDiv(num.n, MILLION \div 100), " Million")
         ELSE Money(num.n, "")
    ELSE Literal("N/A")

format_large_number(num) ==
    IF IsNumeric(num)
    THEN IF num.n >= TRILLION
         THEN Money(RoundDiv(num.n, TRILLION \div 100), " Trillion")
         ELSE IF num.n >= BILLION
         THEN Money(RoundDiv(num.n, BILLION \div 100), " Billion")
         ELSE IF num.n >= MILLION
         THEN Money(RoundDiv(num.n, MILLION \div 100), " Million")
         ELSE Money(num.n, "")
    ELSE Literal("N/A")

-----------------------------------------------------------------------------
(* The provider (yfinance) and what it may answer *)

\* the exception a failed provider call raises (network, parsing)
ProviderError == [type |-> "Exception", at |-> "provider", msg |-> "provider failure"]

\* keys of stock.info that get_stock_info reads
InfoKeys ==
    {"longName", "marketCap", "forwardPE", "dividendYield", "trailingEps",
     "totalRevenue", "beta", "sector", "recommendationKey",
     "fiftyTwoWeekHigh", "fiftyTwoWeekLow"}

\* a large company with every field present: market cap 1.5 trillion,
\* dividend yield 0.0234, revenue 2.4 billion
FullProfile ==
    [k \in InfoKeys |->
        CASE k = "longName" -> Str("Tata Consultancy Services")
          [] k = "marketCap" -> Num(1500000000)
          [] k = "forwardPE" -> Num(25)
          [] k = "dividendYield" -> Num(23400)
          [] k = "trailingEps" -> Num(0)
          [] k = "totalRevenue" -> Num(2400000)
          [] k = "beta" -> Num(1)
          [] k = "sector" -> Str("Technology")
          [] k = "recommendationKey" -> Str("buy")
          [] k = "fiftyTwoWeekHigh" -> Num(4)
          [] k = "fiftyTwoWeekLow" -> Num(3)]

\* a small company: market cap exactly one million, revenue just below it,
\* and a dividend yield of zero
SmallProfile ==
    [FullProfile EXCEPT !["marketCap"] = Num(MILLION),
                        !["totalRevenue"] = Num(MILLION - 1),
                        !["dividendYield"] = Num(0)]

\* f restricted to the keys in S
Restrict(f, S) == [k \in S |-> f[k]]

\* the mappings stock.info may be
Profiles ==
    { FullProfile,
      SmallProfile,
      [FullProfile EXCEPT !["dividendYield"] = Num(23460)],
      [FullProfile EXCEPT !["dividendYield"] = None],
      Restrict(FullProfile, InfoKeys \ {"dividendYield"}),
      Restrict(FullProfile, {"longName", "sector"}) }

\* info.get(key, 'N/A')
Get(d, key) == IF key \in DOMAIN d THEN d[key] ELSE NA

\* a row of stock.history(...): a trading day (year, month) with its prices
Day(y, m, high, low, close) ==
    [year |-> y, month |-> m, High |-> Num(high), Low |-> Num(low), Close |-> Num(close)]

\* the tables stock.history(period="1d") may be: no trading data, or the
\* day's row(s)
OneDayHistories ==
    { <<>>,
      <<Day(2024, 12, 4, 3, 4)>>,
      <<Day(2024, 12, 4, 3, 3), Day(2024, 12, 6, 5, 5)>> }

\* the tables stock.history(period="1y") may be
OneYearHistories ==
    { <<Day(2024, 1, 4, 2, 3), Day(2024, 2, 6, 4, 5), Day(2024, 5, 8, 6, 7),
        Day(2024, 8, 9, 7, 8), Day(2024, 11, 5, 3, 4), Day(2024, 12, 7, 5, 6)>>,
      <<Day(2024, 3, 4, 2, 3), Day(2024, 10, 6, 4, 5), Day(2024, 10, 7, 4, 6)>> }

\* row labels of the quarterly statement table that the code reads
StatementRows == {"Net Income", "Total Revenue", "Operating Income"}

\* the value of a statement line in the i-th most recent quarter: a company
\* in profit (billions) or one making a loss of millions
StatementValue(company, row, i) ==
    CASE row = "Total Revenue" -> Num(9000000 - 1000 * i)
      [] row = "Operating Income" -> Num(2000000 - 1000 * i)
      [] OTHER -> IF company = "profit" THEN Num(5000000 - 1000 * i)
                  ELSE Num(-(5000 + i))

\* a quarterly statement table: its period columns (most recent first, as
\* the provider orders them) and, per row label, one value per column
Statement(company, rows, ncols) ==
    [ncols |-> ncols,
     data |-> [r \in rows |-> [i \in 1..ncols |-> StatementValue(company, r, i)]]]

\* the tables stock.quarterly_financials may be
Statements ==
    { Statement(c, StatementRows, n) : c \in {"profit", "loss"}, n \in 0..MaxCols }
    \cup { Statement("profit", StatementRows \ {r}, 3) : r \in {"Net Income", "Operating Income"} }
    \cup { Statement("profit", {}, 0) }

-----------------------------------------------------------------------------
(* Outcomes of a call: a returned value or a raised exception *)

Return(v) == [exc |-> Absent, val |-> Some(v)]
Raise(e) == [exc |-> Some(e), val |-> Absent]
Raised(o) == o.exc # Absent

Min(a, b) == IF a < b THEN a ELSE b

-----------------------------------------------------------------------------
(* get_quarterly_financials *)

\* quarterly_financials.empty: no rows or no columns
Empty(t) == t.ncols = 0 \/ DOMAIN t.data = {}

\* quarterly_financials.iloc[:, :3]
latest_quarters(t) ==
    [ncols |-> Min(3, t.ncols),
     data |-> [r \in DOMAIN t.data |-> SubSeq(t.data[r], 1, Min(3, t.ncols))]]

KeyError(label) == [type |-> "KeyError", at |-> "get_quarterly_financials", msg |-> label]

\* ["N/A"] * 3
SentinelTriple == <<NA, NA, NA>>

\* the value get_quarterly_financials returns for the table the provider
\* answered with, or the KeyError of the first missing row
get_quarterly_financials(t) ==
    IF ~Empty(t)
    THEN LET latest == latest_quarters(t)
         IN  IF "Net Income" \notin DOMAIN latest.data
             THEN Raise(KeyError("Net Income"))
             ELSE IF "Total Revenue" \notin DOMAIN latest.data
             THEN Raise(KeyError("Total Revenue"))
             ELSE IF "Operating Income" \notin DOMAIN latest.data
             THEN Raise(KeyError("Operating Income"))
             ELSE Return([net_profit |-> latest.data["Net Income"],
                          sales |-> latest.data["Total Revenue"],
                          operating_income |-> latest.data["Operating Income"]])
    ELSE Return([net_profit |-> SentinelTriple, sales |-> SentinelTriple,
                 operating_income |-> SentinelTriple])

-----------------------------------------------------------------------------
(* get_stock_info *)

IndexError == [type |-> "IndexError", at |-> "current_price",
               msg |-> "single positional indexer is out-of-bounds"]

\* stock.history(period="1d")["Close"].iloc[-1]
LastClose(hist) ==
    IF Len(hist) = 0 THEN Raise(IndexError) ELSE Return(hist[Len(hist)].Close)

FormatError(where) == [type |-> "ValueError", at |-> where, msg |-> "Unknown format code"]

\* f"{dividend_yield:.2%}" if dividend_yield else "N/A"
DividendYieldField(dividend_yield) ==
    IF Truthy(dividend_yield)
    THEN IF IsNumeric(dividend_yield)
         THEN Return(Percent(RoundDiv(dividend_yield.n, 100)))
         ELSE Raise(FormatError("dividend_yield"))
    ELSE Return(Literal("N/A"))

\* the keys of the mapping get_stock_info returns, in the order it lists them
StockInfoKeys ==
    <<"Company Name", "Ticker", "Current Price", "Market Cap", "PE Ratio",
      "Dividend Yield", "EPS", "Revenue", "Net Profit (Last Quarter)",
      "Sales (Last Quarter)", "Operating Income (Last Quarter)", "Beta",
      "52-Week High", "52-Week Low", "Sector", "Recommendation">>

Range(f) == { f[x] : x \in DOMAIN f }

\* str(value) of a value that is passed through unformatted
StrOf(v) ==
    CASE v.t = "str" -> Literal(v.s)
      [] v.t = "none" -> Literal("None")
      [] OTHER -> [sym |-> "", h |-> v.n, tier |-> ""]

\* the return statement of get_stock_info: the mapping, each value as main
\* prints it, or the exception that building it raises
BuildStockInfo(tk, inf, price, fin) ==
    LET dy == DividendYieldField(Get(inf, "dividendYield"))
    IN  IF Raised(dy) THEN dy
        ELSE Return(
          [k \in Range(StockInfoKeys) |->
            CASE k = "Company Name" -> StrOf(Get(inf, "longName"))
              [] k = "Ticker" -> Literal(tk)
              [] k = "Current Price" -> format_large_number(price)
              [] k = "Market Cap" -> format_large_number(Get(inf, "marketCap"))
              [] k = "PE Ratio" -> StrOf(Get(inf, "forwardPE"))
              [] k = "Dividend Yield" -> dy.val[1]
              [] k = "EPS" -> format_large_number(Get(inf, "trailingEps"))
              [] k = "Revenue" -> format_large_number(Get(inf, "totalRevenue"))
              [] k = "Net Profit (Last Quarter)" -> format_large_number(fin.net_profit[1])
              [] k = "Sales (Last Quarter)" -> format_large_number(fin.sales[1])
              [] k = "Operating Income (Last Quarter)" ->
                    format_large_number(fin.operating_income[1])
              [] k = "Beta" -> StrOf(Get(inf, "beta"))
              [] k = "52-Week High" -> format_large_number(Get(inf, "fiftyTwoWeekHigh"))
              [] k = "52-Week Low" -> format_large_number(Get(inf, "fiftyTwoWeekLow"))
              [] k = "Sector" -> StrOf(Get(inf, "sector"))
              [] k = "Recommendation" -> StrOf(Get(inf, "recommendationKey"))])

-----------------------------------------------------------------------------
(* calculate_quarterly_averages *)

\* hist.index.to_period('Q'): the calendar quarter of a trading day
Quarter(day) == [year |-> day.year, q |-> (day.month - 1) \div 3 + 1]

\* calendar order of quarters
QuarterIndex(p) == p.year * 4 + p.q

RECURSIVE SumOf(_, _)
\* the sum of column col over the rows of hist that fall in quarter p
SumOf(rows, col) ==
    IF rows = <<>> THEN 0 ELSE rows[1][col].n + SumOf(Tail(rows), col)

\* the rows of hist in quarter p
RowsIn(hist, p) == SelectSeq(hist, LAMBDA d : Quarter(d) = p)

\* the arithmetic mean of a column, as the exact fraction total / count
Mean(rows, col) == [total |-> SumOf(rows, col), count |-> Len(rows)]

RECURSIVE Ascending(_)
\* the quarters of S in calendar order
Ascending(S) ==
    IF S = {} THEN <<>>
    ELSE LET first == CHOOSE p \in S : \A o \in S : QuarterIndex(p) <= QuarterIndex(o)
         IN  <<first>> \o Ascending(S \ {first})

\* hist.groupby('Quarter')[['High', 'Low']].mean()
calculate_quarterly_averages(hist) ==
    LET quarters == Ascending({ Quarter(hist[i]) : i \in DOMAIN hist })
    IN  [i \in DOMAIN quarters |->
            [Quarter |-> quarters[i],
             High |-> Mean(RowsIn(hist, quarters[i]), "High"),
             Low |-> Mean(RowsIn(hist, quarters[i]), "Low")]]

-----------------------------------------------------------------------------
(* plot_visualizations *)

ShapeError(where) == [type |-> "ValueError", at |-> where, msg |-> "shape mismatch"]

\* axes.bar(['Q1', 'Q2', 'Q3'], heights): the heights are broadcast against
\* the three labels, so one height gives three equal bars and any other
\* count than three cannot be broadcast.  Heights that are str are not
\* rejected at this call; the labels' format (Annotate) raises for them
Bar(heights, where) ==
    IF Len(heights) = 3 THEN Return(heights)
    ELSE IF Len(heights) = 1 THEN Return(<<heights[1], heights[1], heights[1]>>)
    ELSE Raise(ShapeError(where))

\* for i, v in enumerate(values): axes.text(i, v, f"Rs{v:.2f}", ...)
Annotate(values, where) ==
    IF \E i \in DOMAIN values : ~IsNumeric(values[i])
    THEN Raise(FormatError(where))
    ELSE Return([i \in DOMAIN values |-> Money(values[i].n, "")])

\* what plot_visualizations does after plt.subplots has opened the figure:
\* the image it returns, or the exception raised while drawing
plot_visualizations(tk, net_profit, sales, high_low) ==
    LET bars1 == Bar(net_profit, "net_profit bars")
        notes1 == Annotate(net_profit, "net_profit labels")
        bars2 == Bar(sales, "sales bars")
        notes2 == Annotate(sales, "sales labels")
    IN  IF Raised(bars1) THEN bars1
        ELSE IF Raised(notes1) THEN notes1
        ELSE IF Raised(bars2) THEN bars2
        ELSE IF Raised(notes2) THEN notes2
        ELSE Return([title |-> tk,
                     net_profit |-> bars1.val[1], net_profit_labels |-> notes1.val[1],
                     sales |-> bars2.val[1], sales_labels |-> notes2.val[1],
                     high_low |-> high_low])

-----------------------------------------------------------------------------
(* main *)

\* f"{ticker_symbol}.NS"
Qualify(symbol) == symbol \o ".NS"

\* "\n\n".join([f"**{key}**: {value}" for key, value in stock_info.items()])
stock_info_md(si) == [i \in DOMAIN StockInfoKeys |-> <<StockInfoKeys[i], si[StockInfoKeys[i]]>>]

\* f"Error fetching data for {ticker}: {e}"
ErrorText(tk, e) ==
    [kind |-> "error", prefix |-> "Error fetching data for ", ticker |-> tk, msg |-> e.msg]

\* the text block: the lines "**key**: value" in the mapping's order
TextBlock(si) == [kind |-> "block", lines |-> stock_info_md(si)]

except_handler_message_only(tk, e) ==
    [text |-> [kind |-> "error", prefix |-> "", ticker |-> "", msg |-> e.msg],
     image |-> Absent]

\* except Exception as e: return f"Error fetching data for {ticker}: {e}", None
except_handler(tk, e) == [text |-> ErrorText(tk, e), image |-> Absent]

\* return stock_info_md, visual_image
success(si, image) == [text |-> TextBlock(si), image |-> Some(image)]

-----------------------------------------------------------------------------
(* load_stocks *)

\* nse_stocks.csv: absent, or a table of named columns
NoFile == [exists |-> FALSE, table |-> <<>>]
CsvFile(table) == [exists |-> TRUE, table |-> table]

\* the files the process may find at start
CatalogFiles ==
    { NoFile,
      CsvFile([SYMBOL |-> <<"TCS", "INFY">>, SERIES |-> <<"EQ", "EQ">>]),
      CsvFile([NAME |-> <<"TCS", "INFY">>]) }

load_stocks_raises_when_absent(file) ==
    IF ~file.exists
    THEN Raise([type |-> "FileNotFoundError", at |-> "load_stocks", msg |-> "nse_stocks.csv"])
    ELSE IF "SYMBOL" \notin DOMAIN file.table
    THEN Raise([type |-> "KeyError", at |-> "load_stocks", msg |-> "SYMBOL"])
    ELSE Return(file.table["SYMBOL"])

\* pd.read_csv('nse_stocks.csv')['SYMBOL'].tolist(), [] on FileNotFoundError
load_stocks(file) ==
    IF ~file.exists THEN Return(<<>>)
    ELSE IF "SYMBOL" \notin DOMAIN file.table
    THEN Raise([type |-> "KeyError", at |-> "load_stocks", msg |-> "SYMBOL"])
    ELSE Return(file.table["SYMBOL"])

-----------------------------------------------------------------------------
(* The process *)

\* a local that is not bound
Unbound == <<>>

locals == <<ticker_symbol, ticker, info, histCheck, histRead, current_price, table1,
            fin1, stock_info, table2, fin2, quarterly_high_low, visual_image, exc>>

UnboundLocals ==
    /\ ticker_symbol = Unbound /\ ticker = Unbound /\ info = Unbound
    /\ histCheck = Unbound /\ histRead = Unbound /\ current_price = Unbound
    /\ table1 = Unbound /\ fin1 = Unbound /\ stock_info = Unbound
    /\ table2 = Unbound /\ fin2 = Unbound /\ quarterly_high_low = Unbound
    /\ visual_image = Unbound /\ exc = Absent

Init ==
    /\ pc = "start"
    /\ catalogFile \in CatalogFiles
    /\ stocks = Unbound
    /\ openFigures = 0
    /\ UnboundLocals
    /\ result = Absent
    /\ fmtIn = Absent
    /\ fmtOut = Absent

\* stocks = load_stocks(), at import; a KeyError ends the process
LoadStocks ==
    /\ pc = "start"
    /\ LET o == load_stocks(catalogFile)
       IN  \/ /\ Raised(o)
              /\ pc' = "crashed"
              /\ UNCHANGED stocks
           \/ /\ ~Raised(o)
              /\ stocks' = o.val[1]
              /\ pc' = "idle"
    /\ UNCHANGED <<catalogFile, openFigures, locals, result, fmtIn, fmtOut>>

\* what the dropdown can submit: a symbol of the catalog, or nothing
\* selected (None, which the f-string prints as "None")
Choices == Range(stocks) \cup {"None"}

\* the front end calls main(ticker_symbol); line 121
Request ==
    /\ pc = "idle"
    /\ openFigures < MaxFigures
    /\ \E s \in Choices :
          /\ ticker_symbol' = s
          /\ ticker' = Qualify(s)
    /\ pc' = "info"
    /\ UNCHANGED <<catalogFile, stocks, openFigures, info, histCheck, histRead,
                   current_price, table1, fin1, stock_info, table2, fin2,
                   quarterly_high_low, visual_image, exc, result, fmtIn, fmtOut>>

\* an exception e raised inside the try block of main: the except clause
\* returns for the request
Caught(e) ==
    /\ exc' = Some(e)
    /\ result' = Some(except_handler(ticker, e))
    /\ pc' = "returned"

\* line 37: info = stock.info
FetchInfo ==
    /\ pc = "info"
    /\ \/ /\ Caught(ProviderError)
          /\ UNCHANGED info
       \/ /\ info' \in Profiles
          /\ pc' = "history_check"
          /\ UNCHANGED <<exc, result>>
    /\ UNCHANGED <<catalogFile, stocks, openFigures, ticker_symbol, ticker, histCheck,
                   histRead, current_price, table1, fin1, stock_info, table2, fin2,
                   quarterly_high_low, visual_image, fmtIn, fmtOut>>

\* line 41, the condition: not stock.history(period="1d").empty
HistoryCheck ==
    /\ pc = "history_check"
    /\ \/ /\ Caught(ProviderError)
          /\ UNCHANGED <<histCheck, current_price>>
       \/ \E h \in OneDayHistories :
          /\ histCheck' = Some(h)
          /\ IF Len(h) = 0
             THEN current_price' = NA /\ pc' = "stock_info"
             ELSE pc' = "history_read" /\ UNCHANGED current_price
          /\ UNCHANGED <<exc, result>>
    /\ UNCHANGED <<catalogFile, stocks, openFigures, ticker_symbol, ticker, info,
                   histRead, table1, fin1, stock_info, table2, fin2,
                   quarterly_high_low, visual_image, fmtIn, fmtOut>>

\* line 41, the value: a second stock.history(period="1d"), its last Close
HistoryRead ==
    /\ pc = "history_read"
    /\ \/ /\ Caught(ProviderError)
          /\ UNCHANGED <<histRead, current_price>>
       \/ \E h \in OneDayHistories :
          /\ histRead' = Some(h)
          /\ LET o == LastClose(h)
             IN  IF Raised(o)
                 THEN Caught(o.exc[1]) /\ UNCHANGED current_price
                 ELSE /\ current_price' = o.val[1]
                      /\ pc' = "stock_info"
                      /\ UNCHANGED <<exc, result>>
    /\ UNCHANGED <<catalogFile, stocks, openFigures, ticker_symbol, ticker, info,
                   histCheck, table1, fin1, stock_info, table2, fin2,
                   quarterly_high_low, visual_image, fmtIn, fmtOut>>

\* lines 52-71: get_stock_info fetches the quarterly financials and builds
\* the mapping it returns to main (line 123)
StockInfo ==
    /\ pc = "stock_info"
    /\ \/ /\ Caught(ProviderError)
          /\ UNCHANGED <<table1, fin1, stock_info>>
       \/ \E t \in Statements :
          /\ table1' = Some(t)
          /\ LET q == get_quarterly_financials(t)
             IN  IF Raised(q)
                 THEN Caught(q.exc[1]) /\ UNCHANGED <<fin1, stock_info>>
                 ELSE /\ fin1' = q.val[1]
                      /\ LET b == BuildStockInfo(ticker, info, current_price, q.val[1])
                         IN  IF Raised(b)
                             THEN Caught(b.exc[1]) /\ UNCHANGED stock_info
                             ELSE /\ stock_info' = b.val[1]
                                  /\ pc' = "quarterly"
                                  /\ UNCHANGED <<exc, result>>
    /\ UNCHANGED <<catalogFile, stocks, openFigures, ticker_symbol, ticker, info,
                   histCheck, histRead, current_price, table2, fin2,
                   quarterly_high_low, visual_image, fmtIn, fmtOut>>

\* line 124: net_profit, sales, _ = get_quarterly_financials(ticker)
Quarterly ==
    /\ pc = "quarterly"
    /\ \/ /\ Caught(ProviderError)
          /\ UNCHANGED <<table2, fin2>>
       \/ \E t \in Statements :
          /\ table2' = Some(t)
          /\ LET q == get_quarterly_financials(t)
             IN  IF Raised(q)
                 THEN Caught(q.exc[1]) /\ UNCHANGED fin2
                 ELSE /\ fin2' = q.val[1]
                      /\ pc' = "averages"
                      /\ UNCHANGED <<exc, result>>
    /\ UNCHANGED <<catalogFile, stocks, openFigures, ticker_symbol, ticker, info,
                   histCheck, histRead, current_price, table1, fin1, stock_info,
                   quarterly_high_low, visual_image, fmtIn, fmtOut>>

\* line 125: quarterly_high_low = calculate_quarterly_averages(ticker)
Averages ==
    /\ pc = "averages"
    /\ \/ /\ Caught(ProviderError)
          /\ UNCHANGED quarterly_high_low
       \/ \E h \in OneYearHistories :
          /\ quarterly_high_low' = calculate_quarterly_averages(h)
          /\ pc' = "plot"
          /\ UNCHANGED <<exc, result>>
    /\ UNCHANGED <<catalogFile, stocks, openFigures, ticker_symbol, ticker, info,
                   histCheck, histRead, current_price, table1, fin1, stock_info,
                   table2, fin2, visual_image, fmtIn, fmtOut>>

\* line 128: plt.subplots opens a figure, which nothing closes, then the
\* panels are drawn and the figure is saved into the image
Plot ==
    /\ pc = "plot"
    /\ openFigures' = openFigures + 1
    /\ LET o == plot_visualizations(ticker, fin2.net_profit, fin2.sales, quarterly_high_low)
       IN  IF Raised(o)
           THEN Caught(o.exc[1]) /\ UNCHANGED visual_image
           ELSE /\ visual_image' = o.val[1]
                /\ pc' = "format"
                /\ UNCHANGED <<exc, result>>
    /\ UNCHANGED <<catalogFile, stocks, ticker_symbol, ticker, info, histCheck,
                   histRead, current_price, table1, fin1, stock_info, table2, fin2,
                   quarterly_high_low, fmtIn, fmtOut>>

\* lines 131-132: the text block is joined and main returns
Format ==
    /\ pc = "format"
    /\ result' = Some(success(stock_info, visual_image))
    /\ pc' = "returned"
    /\ UNCHANGED <<catalogFile, stocks, openFigures, locals, fmtIn, fmtOut>>

\* the front end renders the two outputs; the request's locals are gone
Deliver ==
    /\ pc = "returned"
    /\ pc' = "idle"
    /\ ticker_symbol' = Unbound /\ ticker' = Unbound /\ info' = Unbound
    /\ histCheck' = Unbound /\ histRead' = Unbound /\ current_price' = Unbound
    /\ table1' = Unbound /\ fin1' = Unbound /\ stock_info' = Unbound
    /\ table2' = Unbound /\ fin2' = Unbound /\ quarterly_high_low' = Unbound
    /\ visual_image' = Unbound /\ exc' = Absent
    /\ result' = Absent
    /\ UNCHANGED <<catalogFile, stocks, openFigures, fmtIn, fmtOut>>

Next ==
    \/ LoadStocks
    \/ Request
    \/ FetchInfo
    \/ HistoryCheck
    \/ HistoryRead
    \/ StockInfo
    \/ Quarterly
    \/ Averages
    \/ Plot
    \/ Format
    \/ Deliver

Spec == Init /\ [][Next]_vars

-----------------------------------------------------------------------------
(* Direct calls of format_large_number, over a range of arguments *)

\* how far around each threshold the arguments range
MaxDelta == 3

\* the largest multiple of a threshold among the arguments
MaxMultiple == 4

Thresholds == {MILLION, BILLION, TRILLION}

\* the arguments: numbers at and around zero and each threshold, their
\* negatives, multiples of the million and the billion, twice the trillion,
\* and values that are no numbers
FormatInputs ==
    { Num(t + d) : t \in Thresholds \cup {0}, d \in -MaxDelta..MaxDelta }
    \cup { Num(-(t + d)) : t \in Thresholds, d \in -MaxDelta..MaxDelta }
    \cup { Num(k * t + d) : k \in 2..MaxMultiple, t \in {MILLION, BILLION}, d \in {-1, 0, 5} }
    \cup { Num(2 * TRILLION) }
    \cup { NA, None, Str(""), Str("12") }

InitFormat ==
    /\ pc = "formatter"
    /\ catalogFile = NoFile
    /\ stocks = Unbound
    /\ openFigures = 0
    /\ UnboundLocals
    /\ result = Absent
    /\ fmtIn \in { Some(v) : v \in FormatInputs }
    /\ fmtOut = Absent

\* format_large_number(num) is called and returns
CallFormat ==
    /\ fmtOut = Absent
    /\ fmtOut' = Some(format_large_number(fmtIn[1]))
    /\ UNCHANGED <<pc, catalogFile, stocks, openFigures, locals, result, fmtIn>>

\* the next call, with another argument
NextCall ==
    /\ fmtOut # Absent
    /\ fmtIn' \in { Some(v) : v \in FormatInputs }
    /\ fmtOut' = Absent
    /\ UNCHANGED <<pc, catalogFile, stocks, openFigures, locals, result>>

NextFormat == CallFormat \/ NextCall

SpecFormat == InitFormat /\ [][NextFormat]_vars

-----------------------------------------------------------------------------
(* Properties *)

Tiers == {" Million", " Billion", " Trillion"}

Abs(n) == IF n < 0 THEN -n ELSE n

\* the value printed for a key of the text block
LineOf(text, key) ==
    LET i == CHOOSE j \in DOMAIN text.lines : text.lines[j][1] = key
    IN  text.lines[i][2]

\* get_stock_info got its statement table and the table had the rows it reads
\* (or was empty), so the mapping was built or failed to build
BuildRan == table1 # Unbound /\ ~Raised(get_quarterly_financials(table1[1]))

\* C1: main never raises and returns one of two shapes: a text block with an
\* image, or "Error fetching data for <s>.NS: <message>" with no image; the
\* second whenever a step raised.
C1_TwoShapes ==
    pc = "returned" =>
        /\ Len(result) = 1
        /\ \/ /\ exc = Absent
              /\ result[1].text.kind = "block"
              /\ Len(result[1].image) = 1
           \/ /\ exc # Absent
              /\ result[1].text = [kind |-> "error",
                                   prefix |-> "Error fetching data for ",
                                   ticker |-> ticker_symbol \o ".NS",
                                   msg |-> exc[1].msg]
              /\ result[1].image = Absent

\* a request whose text was ready and whose chart failed, and has returned
C1_Witness ==
    /\ pc = "returned"
    /\ stock_info # Unbound
    /\ exc # Absent
    /\ exc[1].at = "net_profit labels"
    /\ result[1].image = Absent

\* C2: with an empty quarterly statement table and all other provider data
\* well-formed, main returns a text block showing "N/A" for the three
\* last-quarter fields.
C2_EmptyTableNonFatal ==
    ( /\ pc = "returned"
      /\ table2 # Unbound
      /\ Empty(table1[1])
      /\ Empty(table2[1])
      /\ info = FullProfile
      /\ histCheck # Unbound /\ Len(histCheck[1]) > 0
      /\ histRead # Unbound /\ Len(histRead[1]) > 0
      /\ quarterly_high_low # Unbound )
    => /\ result[1].text.kind = "block"
       /\ \A k \in {"Net Profit (Last Quarter)", "Sales (Last Quarter)",
                    "Operating Income (Last Quarter)"} :
             LineOf(result[1].text, k) = Literal("N/A")

\* C3: "Dividend Yield" is the yield as a percentage with two decimals when it
\* is present and not zero, "N/A" when it is zero or absent, and building the
\* mapping never fails on it.
C3_DividendYield ==
    BuildRan =>
        LET dy == Get(info, "dividendYield")
        IN  /\ ~(exc # Absent /\ exc[1].at = "dividend_yield")
            /\ stock_info # Unbound =>
                  /\ (IsNumeric(dy) /\ dy.n # 0) =>
                        /\ stock_info["Dividend Yield"].sym = "%"
                        /\ Abs(stock_info["Dividend Yield"].h * 100 - dy.n) <= 50
                  /\ (dy = NA \/ dy = Num(0)) =>
                        stock_info["Dividend Yield"] = Literal("N/A")

\* C4: format_large_number follows the tiering: "N/A" for what is no number;
\* Trillion from 10^12, Billion in [10^9, 10^12), Million in [10^6, 10^9), each
\* the value divided by the tier to two decimals; no suffix below 10^6; the
\* thresholds themselves take the higher tier.
C4_Tiering ==
    fmtOut # Absent =>
        LET v == fmtIn[1]
            out == fmtOut[1]
            Nearest(unit) == 2 * Abs(out.h * (unit \div 100) - v.n) <= unit \div 100
        IN  /\ ~IsNumeric(v) => out = Literal("N/A")
            /\ (IsNumeric(v) /\ v.n >= TRILLION) =>
                  out.sym = "Rs" /\ out.tier = " Trillion" /\ Nearest(TRILLION)
            /\ (IsNumeric(v) /\ v.n >= BILLION /\ v.n < TRILLION) =>
                  out.sym = "Rs" /\ out.tier = " Billion" /\ Nearest(BILLION)
            /\ (IsNumeric(v) /\ v.n >= MILLION /\ v.n < BILLION) =>
                  out.sym = "Rs" /\ out.tier = " Million" /\ Nearest(MILLION)
            /\ (IsNumeric(v) /\ v.n < MILLION) =>
                  out.sym = "Rs" /\ out.tier = "" /\ out.h = v.n

\* exactly 10^9 has been formatted, as a Billion
C4_Witness ==
    /\ fmtIn = Some(Num(BILLION))
    /\ fmtOut # Absent
    /\ fmtOut[1] = Money(100, " Billion")

\* C5: every monetary field of the mapping whose value has a magnitude of a
\* million or more carries a unit tier, a negative value included.
C5_TierAtMagnitude ==
    (BuildRan /\ stock_info # Unbound) =>
        LET source ==
              [k \in {"Current Price", "Market Cap", "EPS", "Revenue",
                      "Net Profit (Last Quarter)", "Sales (Last Quarter)",
                      "Operating Income (Last Quarter)", "52-Week High", "52-Week Low"} |->
                CASE k = "Current Price" -> current_price
                  [] k = "Market Cap" -> Get(info, "marketCap")
                  [] k = "EPS" -> Get(info, "trailingEps")
                  [] k = "Revenue" -> Get(info, "totalRevenue")
                  [] k = "Net Profit (Last Quarter)" -> fin1.net_profit[1]
                  [] k = "Sales (Last Quarter)" -> fin1.sales[1]
                  [] k = "Operating Income (Last Quarter)" -> fin1.operating_income[1]
                  [] k = "52-Week High" -> Get(info, "fiftyTwoWeekHigh")
                  [] k = "52-Week Low" -> Get(info, "fiftyTwoWeekLow")]
        IN  \A k \in DOMAIN source :
              (IsNumeric(source[k]) /\ Abs(source[k].n) >= MILLION) =>
                  stock_info[k].tier \in Tiers

\* C6: the latest-close lookup gives the most recent close when the provider
\* returns trading data and "N/A", without raising, when it returns none,
\* whatever the provider answers to each of the lookup's queries.
C6_LatestClose ==
    /\ ~(exc # Absent /\ exc[1].at = "current_price")
    /\ (histCheck # Unbound /\ current_price # Unbound) =>
          IF Len(histCheck[1]) = 0
          THEN current_price = NA
          ELSE current_price = histRead[1][Len(histRead[1])].Close

\* C7: get_quarterly_financials returns three sequences of length 3, most
\* recent quarter first: the sentinels for an empty table, the 3 most recent
\* columns otherwise, whatever the number of period columns.
C7_ThreeQuarters ==
    (table1 # Unbound /\ (Empty(table1[1]) \/ StatementRows \subseteq DOMAIN table1[1].data)) =>
        /\ Len(fin1.net_profit) = 3
        /\ Len(fin1.sales) = 3
        /\ Len(fin1.operating_income) = 3
        /\ Empty(table1[1]) =>
              fin1.net_profit = <<NA, NA, NA>> /\ fin1.sales = <<NA, NA, NA>>
              /\ fin1.operating_income = <<NA, NA, NA>>
        /\ ~Empty(table1[1]) =>
              \A i \in 1..3 :
                /\ fin1.net_profit[i] = table1[1].data["Net Income"][i]
                /\ fin1.sales[i] = table1[1].data["Total Revenue"][i]
                /\ fin1.operating_income[i] = table1[1].data["Operating Income"][i]

\* C8: between requests the process-wide state is what it was before the
\* first one: the catalog as loaded and no open figure.
C8_NothingPersists ==
    pc = "idle" =>
        /\ openFigures = 0
        /\ stocks = (IF catalogFile.exists THEN catalogFile.table["SYMBOL"] ELSE <<>>)

\* C9: load_stocks returns the SYMBOL column in order when the file exists,
\* and an empty sequence, without raising, when the file is absent, so the
\* process starts and the dropdown offers no symbol.
C9_LoadStocks ==
    pc # "start" =>
        /\ ~catalogFile.exists =>
              pc # "crashed" /\ stocks = <<>> /\ Choices \ {"None"} = {}
        /\ (catalogFile.exists /\ "SYMBOL" \in DOMAIN catalogFile.table) =>
              pc # "crashed" /\ stocks = catalogFile.table["SYMBOL"]

\* the process has started without the file, and serves requests
C9_Witness ==
    /\ ~catalogFile.exists
    /\ pc = "info"
    /\ stocks = <<>>

\* C10: in a successful response the text and the chart show the same
\* quarterly data: the last-quarter net profit and sales in the text are the
\* formatted first bars of the chart.
C10_TextMatchesChart ==
    (pc = "returned" /\ exc = Absent) =>
        /\ LineOf(result[1].text, "Net Profit (Last Quarter)") =
              format_large_number(result[1].image[1].net_profit[1])
        /\ LineOf(result[1].text, "Sales (Last Quarter)") =
              format_large_number(result[1].image[1].sales[1])

=============================================================================
